---- MODULE Spec2Model ----
(***************************************************************************)
(* Model of the ethmonitor chain-following monitor                         *)
(* (src/ethmonitor/ethmonitor.go).                                         *)
(*                                                                         *)
(* The monitor task polls the provider for block head+1, aligns the local  *)
(* cache with it (buildCanonicalChain), attaches logs, and publishes the   *)
(* resulting batch of Added/Removed events through the publish queue onto  *)
(* the unbuffered publish channel, from where a broadcast task forwards it *)
(* to the subscribers.                                                     *)
(*                                                                         *)
(* Chain (push/pop/Head) and the publish queue (enqueue/dequeue) are not   *)
(* part of the available sources; they are modelled from sections 4.1 and  *)
(* 4.2 of the specification.                                               *)
(***************************************************************************)
EXTENDS Integers, Sequences, FiniteSets, TLC

(***************************************************************************)
(* Bounds of the model.                                                    *)
(***************************************************************************)
\* block numbers of the provider's universe are 0..MaxNum
MaxNum == 3
\* polling rounds that fetch a block (the event ids and the sinks grow with them)
MaxRounds == 5
\* the same with WithLogs set, where every FilterLogs answer branches
MaxLogRounds == 2
\* TrailNumBlocksBehindHead is drawn from 0..MaxTrail
MaxTrail == 1
\* Options.BlockRetentionLimit as configured (before the trail is added)
BlockRetentionLimit == 2
\* Options.PollingInterval in time units
PollingInterval == 2
\* Run calls on the one Monitor (each starts a broadcast task)
MaxRuns == 2
\* subscribers
MaxSubs == 2
\* polling rounds that fetch a block while subscribers and restarts are modelled
MaxFanoutRounds == 3
\* blocks of the list handed to one addLogs call checked on its own
MaxLogBlocks == 2
\* polling rounds that fetch a block from a state drawn with a filled publish queue
MaxQueueRounds == 2
\* the same with WithLogs set
MaxQueueLogRounds == 1
\* concurrent callers of Run on the one Monitor, and the calls of Run that get
\* past its test of the running flag
MaxCallers == 3
\* a negative StartBlockNumber is drawn from -MaxBack..-1
MaxBack == 2
\* polling rounds that fetch a block after a Run from a drawn start configuration
MaxStartRounds == 1
\* calls of Unsubscribe on one subscription after the first
MaxAgain == 2
\* polling rounds that fetch a block while subscribers come and never read
MaxSubRounds == 2
\* answers of the provider to one fetch by hash with neither block nor error
MaxNilAnswers == 1
\* LatestFinalBlock is called with a finality depth of 0..MaxFinality
MaxFinality == 2
\* polling rounds that fetch a block while PurgeHistory is called at any moment
MaxPurgeRounds == 3

(***************************************************************************)
(* The provider's universe of blocks.  A hash determines its block.        *)
(* hash = 10 * number + fork:                                              *)
(*   fork 1 (A): the main line, parent A(n-1); A(0) has no known parent    *)
(*   fork 2 (B): parent A(n-1)                                             *)
(*   fork 3 (C): parent B(n-1)                                             *)
(*   fork 4 (D): inconsistent block: number n, parent A(n-2)               *)
(*   fork 5 (E): number n, parent D(n)                                     *)
(* D and E exist at number BadNum only; a provider that serves them is not *)
(* consistent (number # parent.number + 1).                                *)
(***************************************************************************)
\* a nil *big.Int or *Block: below every number the options and the provider use
Nil == 0 - MaxNum - 2

BadNum == MaxNum

HashOf(n, f) == 10 * n + f

Number(h) == h \div 10

Fork(h) == h % 10

ParentHash(h) ==
    CASE Fork(h) = 1 -> IF Number(h) = 0 THEN 0 ELSE HashOf(Number(h) - 1, 1)
      [] Fork(h) = 2 -> HashOf(Number(h) - 1, 1)
      [] Fork(h) = 3 -> HashOf(Number(h) - 1, 2)
      [] Fork(h) = 4 -> HashOf(Number(h) - 2, 1)
      [] OTHER       -> HashOf(Number(h), 4)

ConsistentHashes ==
    {HashOf(n, 1) : n \in 0..MaxNum}
        \cup {HashOf(n, 2) : n \in 1..MaxNum}
        \cup {HashOf(n, 3) : n \in 2..MaxNum}

Hashes == ConsistentHashes \cup {HashOf(BadNum, 4), HashOf(BadNum, 5)}

\* types.Block.Bloom(): non-zero for the blocks of odd number
BloomNonZero(h) == Number(h) % 2 = 1

VARIABLES
    trail,            \* options.TrailNumBlocksBehindHead
    withLogs,         \* options.WithLogs
    startBlockNumber, \* options.StartBlockNumber (Nil: not set)
    bootstrap,        \* options.Bootstrap
    logTopics,        \* options.LogTopics and the provider's FilterLogs (see Truth)
    chain,            \* m.chain.blocks, oldest first, newest (Head) last
    nextBlockNumber,  \* m.nextBlockNumber (Nil: latest)
    events,           \* the events sink of Monitor.monitor
    pollInterval,     \* the adaptive poll interval of Monitor.monitor
    publishQueue,     \* m.publishQueue: batches awaiting release
    publishCh,        \* the batch the monitor task is sending on m.publishCh
    pc,               \* position of the monitor task
    running,          \* m.running
    ctxDone,          \* m.ctx is cancelled
    parentDone,       \* the context passed to Run is cancelled
    exited,           \* the broadcast tasks that have returned
    holding,          \* per broadcast task: the batch received and not yet broadcast
    subscribers,      \* m.subscribers, in registry order
    delivered,        \* per subscriber: the batches sent on its channel, in order
    closed,           \* the subscribers whose channel is closed
    res,              \* arguments and result of the last buildCanonicalChain call
    replica,          \* the batches handed to publishCh replayed on the initial cache
    sent,             \* ids of the events handed to publishCh, in order
    backfilled,       \* ids of the blocks a backfill sweep of a later round completed
    linear,           \* every resolution so far extended the cache head directly
    consistent,       \* the provider has served consistent blocks only so far
    nextId,           \* next identity of a Block object (&Block{...}, or a copy)
    rounds,           \* polling rounds that fetched a block
    latest,           \* number of the latest block as Run asked the provider for it
    callers,          \* per concurrent caller of Run: its position in Run
    again,            \* per subscriber: calls of Unsubscribe after the first
    fetch,            \* a fetchBlockByNumber / fetchBlockByHash call checked on its own
    final             \* argument and result of the last LatestFinalBlock call

optVars == <<trail, withLogs, startBlockNumber, bootstrap, logTopics>>

lifeVars == <<running, ctxDone, parentDone, exited>>

fanVars == <<subscribers, delivered, closed>>

histVars == <<res, replica, sent, backfilled, linear, consistent, nextId, rounds>>

callVars == <<callers, again, fetch, final>>

vars == <<optVars, chain, nextBlockNumber, events, pollInterval, publishQueue, publishCh,
          pc, lifeVars, holding, fanVars, histVars, latest, callVars>>

(***************************************************************************)
(* Blocks.  A Block object is shared (by pointer) between the cache, the   *)
(* events sink and the queued batches: id names the object.  A Removed     *)
(* event is a copy (an object of its own) of the popped object.            *)
(***************************************************************************)
\* &Block{Event: Added, Block: nextBlock}
NewBlock(h, id) ==
    [hash |-> h, number |-> Number(h), parentHash |-> ParentHash(h),
     event |-> "Added", ok |-> FALSE, logs |-> "nil", id |-> id]

\* the copy of the popped block with its Event left as it was
PoppedBlock_EventKept(b, id) == [b EXCEPT !.ok = TRUE, !.id = id]

\* poppedBlock := *m.chain.pop(); Event = Removed; OK = true
PoppedBlock(b, id) == [b EXCEPT !.event = "Removed", !.ok = TRUE, !.id = id]

\* a retention limit that leaves the trail out
RetentionLimit_Option == BlockRetentionLimit

\* options.BlockRetentionLimit after NewMonitor added the trail to it
RetentionLimit == BlockRetentionLimit + trail

\* capacity of the publish queue: newQueue(opts.BlockRetentionLimit * 2)
QueueCapacity == RetentionLimit * 2

(***************************************************************************)
(* Chain (specification 4.1).                                              *)
(***************************************************************************)
ChainHead(c) == c[Len(c)]

\* a push that checks neither the parent hash nor the number
push_Unchecked(c, b) ==
    LET c1 == Append(c, b)
    IN  [chain |-> IF Len(c1) > RetentionLimit THEN Tail(c1) ELSE c1, err |-> "nil"]

push(c, b) ==
    IF c # <<>> /\ b.parentHash # ChainHead(c).hash
    THEN [chain |-> c, err |-> "ErrUnexpectedParentHash"]
    ELSE IF c # <<>> /\ b.number # ChainHead(c).number + 1
    THEN [chain |-> c, err |-> "ErrUnexpectedBlockNumber"]
    ELSE LET c1 == Append(c, b)
         IN  [chain |-> IF Len(c1) > RetentionLimit THEN Tail(c1) ELSE c1,
              err |-> "nil"]

pop(c) == SubSeq(c, 1, Len(c) - 1)

(***************************************************************************)
(* Monitor.buildCanonicalChain.  failAt = n > 0: the n-th fetchBlockByHash *)
(* of this resolution fails; a hash the provider does not know always      *)
(* fails.  Returns the cache, the events, the error and the next object id.*)
(***************************************************************************)
\* line 296: the next block extends the cache head, or the cache is empty
Extends(c, nextHash) == c = <<>> \/ ParentHash(nextHash) = ChainHead(c).hash

\* a direct extension that refuses a cache emptied by the pops before it
ExtendHead_NoAnchor(c, nextHash, evs, id) ==
    LET block == NewBlock(nextHash, id)
        p == push(c, block)
    IN  IF c = <<>> /\ evs # <<>>
        THEN [chain |-> c, events |-> evs, err |-> "ErrNoAnchor", id |-> id]
        ELSE [chain |-> p.chain, events |-> Append(evs, block), err |-> p.err,
              id |-> id + 1]

\* lines 298-300: the event is appended, then the push is attempted
ExtendHead(c, nextHash, evs, id) ==
    LET block == NewBlock(nextHash, id)
        p == push(c, block)
    IN  [chain |-> p.chain, events |-> Append(evs, block), err |-> p.err, id |-> id + 1]

\* the push after the recursion without the event of the pushed block
PushNext_NoEvent(r, nextHash) ==
    LET block == NewBlock(nextHash, r.id)
        p == push(r.chain, block)
    IN  IF p.err # "nil"
        THEN [chain |-> r.chain, events |-> r.events, err |-> p.err, id |-> r.id + 1]
        ELSE [chain |-> p.chain, events |-> r.events, err |-> "nil", id |-> r.id + 1]

\* lines 330-337: after the recursion returned r, push the next block and
\* append its event when the push succeeded
PushNext(r, nextHash) ==
    LET block == NewBlock(nextHash, r.id)
        p == push(r.chain, block)
    IN  IF p.err # "nil"
        THEN [chain |-> r.chain, events |-> r.events, err |-> p.err, id |-> r.id + 1]
        ELSE [chain |-> p.chain, events |-> Append(r.events, block), err |-> "nil",
              id |-> r.id + 1]

RECURSIVE buildCanonicalChain(_, _, _, _, _)
buildCanonicalChain(c, nextHash, evs, failAt, id) ==
    IF Extends(c, nextHash)
    THEN ExtendHead(c, nextHash, evs, id)
    ELSE LET evs1 == Append(evs, PoppedBlock(ChainHead(c), id))
         IN  IF failAt = 1 \/ ParentHash(nextHash) \notin Hashes
             THEN [chain |-> pop(c), events |-> evs1, err |-> "fetchBlockByHash",
                   id |-> id + 1]
             ELSE LET r == buildCanonicalChain(pop(c), ParentHash(nextHash), evs1,
                                               IF failAt = 0 THEN 0 ELSE failAt - 1,
                                               id + 1)
                  IN  IF r.err # "nil" THEN r ELSE PushNext(r, nextHash)

(***************************************************************************)
(* Monitor.addLogs.  The provider's FilterLogs answer for one block is     *)
(* "err", "empty" (no logs) or "some" (a non-empty list).                  *)
(***************************************************************************)
\* A block of non-zero bloom is answered "empty" or "some", one of zero bloom
\* "err" or "empty": "err" has the effect of "empty" on a block of non-zero bloom.
Outcomes(h) == IF BloomNonZero(h) THEN {"empty", "some"} ELSE {"err", "empty"}

\* the loop body without the look at the block's bloom
addLogsBlock_NoBloom(b, answer) ==
    IF b.ok THEN b
    ELSE IF b.event = "Removed" THEN [b EXCEPT !.ok = TRUE]
    ELSE IF answer = "some" THEN [b EXCEPT !.logs = "some", !.ok = TRUE]
    ELSE IF answer = "empty" THEN [b EXCEPT !.logs = "empty", !.ok = TRUE]
    ELSE [b EXCEPT !.logs = "nil", !.ok = FALSE]

\* the body of the loop of addLogs for one block and the provider's answer
addLogsBlock(b, answer) ==
    IF b.ok THEN b
    ELSE IF b.event = "Removed" THEN [b EXCEPT !.ok = TRUE]
    ELSE IF answer = "some" THEN [b EXCEPT !.logs = "some", !.ok = TRUE]
    ELSE IF answer = "empty" /\ ~BloomNonZero(b.hash)
    THEN [b EXCEPT !.logs = "empty", !.ok = TRUE]
    ELSE [b EXCEPT !.logs = "nil", !.ok = FALSE]

\* the Block objects of a list that addLogs asks the provider about
Pending(blocks) ==
    {blocks[i].id : i \in {j \in 1..Len(blocks) :
                              ~blocks[j].ok /\ blocks[j].event = "Added"}}

HashOfId(blocks, id) ==
    LET i == CHOOSE j \in 1..Len(blocks) : blocks[j].id = id
    IN  blocks[i].hash

\* provider.FilterLogs of a provider that always succeeds and answers
\* truthfully, on the block of hash h: a block of zero bloom has no logs; the
\* logs of a block of non-zero bloom are all returned without a topic filter
\* (logTopics "none") and none of them with a filter that matches none
\* ("nomatch")
Truth(h) ==
    IF BloomNonZero(h) /\ logTopics = "none" THEN "some" ELSE "empty"

\* the provider's answers for the pending objects of a list: with logTopics
\* "unknown" any answer the bloom of the block allows, else the truth
Answers(blocks) ==
    IF logTopics = "unknown"
    THEN {f \in [Pending(blocks) -> {"err", "empty", "some"}] :
             \A id \in DOMAIN f : f[id] \in Outcomes(HashOfId(blocks, id))}
    ELSE {[id \in Pending(blocks) |-> Truth(HashOfId(blocks, id))]}

\* a list of blocks after addLogs wrote through the pointers of the objects in ans
Written(blocks, ans) ==
    [i \in 1..Len(blocks) |->
        IF blocks[i].id \in DOMAIN ans
        THEN addLogsBlock(blocks[i], ans[blocks[i].id])
        ELSE blocks[i]]

WrittenQueue(q, ans) == [i \in 1..Len(q) |-> Written(q[i], ans)]

\* m.addLogs(ctx, events): a1 holds the provider's answers
addLogs(c, evs, q, a1) ==
    [chain |-> Written(c, a1), events |-> Written(evs, a1), queue |-> WrittenQueue(q, a1)]

\* a backfill that appends every block it asked about to the events sink
backfillChainLogs_Republish(s, a2) ==
    LET c == Written(s.chain, a2)
    IN  [chain |-> c,
         events |-> Written(s.events, a2) \o SelectSeq(c, LAMBDA b : b.id \in DOMAIN a2),
         queue |-> WrittenQueue(s.queue, a2)]

\* m.backfillChainLogs(ctx): addLogs on every cached block that is not ok;
\* no event is created
backfillChainLogs(s, a2) ==
    [chain |-> Written(s.chain, a2), events |-> Written(s.events, a2),
     queue |-> WrittenQueue(s.queue, a2)]

Ids(blocks) == {blocks[i].id : i \in 1..Len(blocks)}

\* lines 264-267: logs nilled and ok set on every event of the sink
ClearLogs(blocks, ids) ==
    [i \in 1..Len(blocks) |->
        IF blocks[i].id \in ids THEN [blocks[i] EXCEPT !.logs = "nil", !.ok = TRUE]
        ELSE blocks[i]]

withoutLogs(c, evs, q) ==
    [chain |-> ClearLogs(c, Ids(evs)), events |-> ClearLogs(evs, Ids(evs)), queue |-> q]

(***************************************************************************)
(* Unsigned 64-bit arithmetic of Monitor.publish.  A value v of uint64 is  *)
(* held as v when v < 2^63 and as v - 2^64 (a negative number) otherwise:  *)
(* the difference of two block numbers wraps to a negative number, and the *)
(* order of uint64 puts every negative number above every other one.       *)
(***************************************************************************)
U64Sub(a, b) == a - b

U64Leq(a, b) ==
    IF a >= 0 /\ b < 0 THEN TRUE
    ELSE IF a < 0 /\ b >= 0 THEN FALSE
    ELSE a <= b

(***************************************************************************)
(* Publish queue (specification 4.2).                                      *)
(***************************************************************************)
\* the key of a batch: its highest block number
RECURSIVE MaxNumber(_)
MaxNumber(batch) ==
    IF Len(batch) = 1 THEN batch[1].number
    ELSE LET m == MaxNumber(Tail(batch))
         IN  IF batch[1].number > m THEN batch[1].number ELSE m

enqueue(q, batch) ==
    IF Len(q) >= QueueCapacity
    THEN [queue |-> q, err |-> "ErrQueueFull"]
    ELSE [queue |-> Append(q, batch), err |-> "nil"]

RECURSIVE Leading(_, _)
Leading(q, maxBlockNum) ==
    IF q = <<>> \/ ~U64Leq(MaxNumber(q[1]), maxBlockNum) THEN 0
    ELSE 1 + Leading(Tail(q), maxBlockNum)

RECURSIVE Concat(_)
Concat(q) == IF q = <<>> THEN <<>> ELSE q[1] \o Concat(Tail(q))

dequeue(q, maxBlockNum) ==
    LET n == IF maxBlockNum = 0 THEN (IF q = <<>> THEN 0 ELSE 1)
             ELSE Leading(q, maxBlockNum)
    IN  [events |-> Concat(SubSeq(q, 1, n)),
         queue |-> SubSeq(q, n + 1, Len(q)),
         ok |-> n > 0]

(***************************************************************************)
(* Replaying a batch: Added appends the block, Removed deletes the last.   *)
(***************************************************************************)
RECURSIVE Replay(_, _)
Replay(hashes, batch) ==
    IF batch = <<>> THEN hashes
    ELSE Replay(IF batch[1].event = "Added" THEN Append(hashes, batch[1].hash)
                ELSE SubSeq(hashes, 1, Len(hashes) - 1),
                Tail(batch))

IdsOf(blocks) == [i \in 1..Len(blocks) |-> blocks[i].id]

CountEvent(blocks, ev) == Len(SelectSeq(blocks, LAMBDA e : e.event = ev))

(***************************************************************************)
(* The provider.  BlockByNumber(n) answers a block of number n of any fork *)
(* (any block for n = Nil, the latest), NotFound or an error.              *)
(***************************************************************************)
Candidates(num) == {h \in Hashes : num = Nil \/ Number(h) = num}

\* the blocks the provider served during one resolution of next block h
RECURSIVE ServedBlocks(_, _)
ServedBlocks(h, fetches) ==
    IF fetches = 0 \/ ParentHash(h) \notin Hashes THEN {h}
    ELSE {h} \cup ServedBlocks(ParentHash(h), fetches - 1)

\* monitor, lines 229-232: the number probed in this round
Probe == IF chain # <<>> THEN ChainHead(chain).number + 1 ELSE nextBlockNumber

Hashes_(blocks) == [i \in 1..Len(blocks) |-> blocks[i].hash]

\* a call of fetchBlockByNumber (fn "byNumber") or fetchBlockByHash ("byHash")
\* at its entry: the counters of the function, the error of the last provider
\* call, the result ("none": still in its loop), and the provider calls made
\* and their answers by kind (nf NotFound, er other errors, ok blocks, nils
\* answers with neither block nor error)
NewFetch(fn) ==
    [fn |-> fn, notFoundAttempts |-> 0, errAttempts |-> 0, err |-> "nil",
     result |-> "none", wrapped |-> "nil", calls |-> 0, nf |-> 0, er |-> 0, ok |-> 0,
     nils |-> 0]

\* no call of Run by a concurrent caller, of Unsubscribe a second time, of a
\* fetch on its own or of LatestFinalBlock has been made
NoCalls ==
    /\ callers = [c \in 1..MaxCallers |-> "out"]
    /\ again = [s \in 1..MaxSubs |-> 0]
    /\ fetch = NewFetch("none")
    /\ final = [n |-> Nil, block |-> <<>>]

Init ==
    /\ trail \in 0..MaxTrail
    /\ withLogs \in BOOLEAN
    /\ startBlockNumber \in {0, 1}
    /\ chain = <<>>
    /\ nextBlockNumber = Nil
    /\ events = <<>>
    /\ pollInterval = PollingInterval
    /\ publishQueue = <<>>
    /\ publishCh = <<>>
    /\ pc = "idle"
    /\ running = 0
    /\ ctxDone = FALSE
    /\ parentDone = FALSE
    /\ exited = {}
    /\ holding = <<>>
    /\ subscribers = <<>>
    /\ delivered = [s \in 1..MaxSubs |-> <<>>]
    /\ closed = {}
    /\ res = [pre |-> <<>>, in |-> <<>>, next |-> 0, chain |-> <<>>, events |-> <<>>,
              err |-> "none"]
    /\ replica = <<>>
    /\ sent = <<>>
    /\ backfilled = {}
    /\ linear = TRUE
    /\ consistent = TRUE
    /\ nextId = 1
    /\ rounds = 0
    /\ bootstrap = FALSE
    /\ logTopics = "unknown"
    /\ latest = Nil
    /\ NoCalls

(***************************************************************************)
(* Monitor.Run, up to the start of the polling loop, and Monitor.Stop.     *)
(***************************************************************************)
\* a start number that prefers options.StartBlockNumber to the cache head
StartNumber_OptionFirst(latestBlock) ==
    IF startBlockNumber # Nil /\ startBlockNumber >= 0 THEN startBlockNumber
    ELSE IF chain # <<>> THEN ChainHead(chain).number + 1
    ELSE nextBlockNumber

\* lines 148-168: the first block number to probe
StartNumber(latestBlock) ==
    IF chain # <<>> THEN ChainHead(chain).number + 1
    ELSE IF startBlockNumber # Nil
    THEN IF startBlockNumber >= 0 THEN startBlockNumber
         ELSE IF latestBlock = Nil THEN nextBlockNumber
         ELSE IF latestBlock + startBlockNumber < 0 THEN Nil
         ELSE latestBlock + startBlockNumber
    ELSE nextBlockNumber

\* m.chain.blocks == nil: a Chain made for Bootstrap mode that no blocks were
\* ever handed to (in that mode Run fails, so no round has run either)
BlocksNil == bootstrap /\ chain = <<>> /\ rounds = 0

\* lines 157-158: the answers of provider.BlockByNumber(m.ctx, nil), asked only
\* with an empty cache and a negative StartBlockNumber; Nil: no block (an error)
LatestAnswers ==
    IF chain = <<>> /\ startBlockNumber # Nil /\ startBlockNumber < 0
    THEN {Nil} \cup (0..MaxNum)
    ELSE {Nil}

\* lines 144-146: Bootstrap mode and a cache never populated: Run returns an
\* error, and its deferred store resets m.running
RunBootstrapError ==
    /\ running = 0
    /\ ~parentDone
    /\ bootstrap /\ BlocksNil
    /\ pc' = "bootstrap"
    /\ ctxDone' = FALSE
    /\ UNCHANGED <<optVars, latest, callVars, chain, nextBlockNumber, events, pollInterval,
                   publishQueue, publishCh, running, parentDone, exited, holding, fanVars,
                   histVars>>

Run ==
    /\ running = 0
    /\ ~parentDone
    /\ ~(bootstrap /\ BlocksNil)
    /\ Len(holding) < MaxRuns
    /\ running' = 1
    /\ ctxDone' = FALSE
    /\ \E latestBlock \in LatestAnswers :
        /\ latest' = latestBlock
        /\ nextBlockNumber' = StartNumber(latestBlock)
    /\ holding' = Append(holding, <<>>)
    /\ events' = <<>>
    /\ pollInterval' = PollingInterval
    /\ pc' = "poll"
    /\ UNCHANGED <<optVars, callVars, chain, publishQueue, publishCh, parentDone, exited,
                   fanVars, histVars>>

Stop ==
    /\ running = 1
    /\ ~ctxDone
    /\ ctxDone' = TRUE
    /\ UNCHANGED <<optVars, latest, callVars, chain, nextBlockNumber, events, pollInterval, publishQueue,
                   publishCh, pc, running, parentDone, exited, holding, fanVars, histVars>>

\* the context passed to Run is cancelled, and m.ctx, derived from it, with it
CancelCtx ==
    /\ running = 1
    /\ ~parentDone
    /\ parentDone' = TRUE
    /\ ctxDone' = TRUE
    /\ UNCHANGED <<optVars, latest, callVars, chain, nextBlockNumber, events, pollInterval, publishQueue,
                   publishCh, pc, running, exited, holding, fanVars, histVars>>

(***************************************************************************)
(* Monitor.monitor: one polling round.                                     *)
(***************************************************************************)
\* lines 225-226: the context is done, monitor returns nil and so does Run
MonitorExit ==
    /\ pc = "poll"
    /\ ctxDone
    /\ pc' = "stopped"
    /\ running' = 0
    /\ UNCHANGED <<optVars, latest, callVars, chain, nextBlockNumber, events, pollInterval, publishQueue,
                   publishCh, ctxDone, parentDone, exited, holding, fanVars, histVars>>

\* a NotFound round that keeps the halved poll interval
PollNotFound_NoReset ==
    /\ pc = "poll"
    /\ ~ctxDone
    /\ nextBlockNumber' = Probe
    /\ UNCHANGED <<optVars, latest, callVars, chain, events, pollInterval, publishQueue, publishCh, pc,
                   lifeVars, holding, fanVars, histVars>>

\* fetchBlockByNumber answered ethereum.NotFound
PollNotFound ==
    /\ pc = "poll"
    /\ ~ctxDone
    /\ nextBlockNumber' = Probe
    /\ pollInterval' = PollingInterval
    /\ UNCHANGED <<optVars, latest, callVars, chain, events, publishQueue, publishCh, pc, lifeVars,
                   holding, fanVars, histVars>>

\* fetchBlockByNumber failed: ErrMaxAttempts, or the error of a done context
PollFetchError ==
    /\ pc = "poll"
    /\ nextBlockNumber' = Probe
    /\ pollInterval' = PollingInterval
    /\ UNCHANGED <<optVars, latest, callVars, chain, events, publishQueue, publishCh, pc, lifeVars,
                   holding, fanVars, histVars>>

\* a publish that drops the batch the queue refused and carries on
publish_IgnoreErr(c, evs, q) ==
    LET maxBlockNum == IF trail > 0 THEN U64Sub(ChainHead(c).number, trail) ELSE 0
        e == enqueue(q, evs)
        d == dequeue(e.queue, maxBlockNum)
    IN  [queue |-> d.queue, sent |-> d.events, err |-> "nil"]

\* Monitor.publish on the cache c, the events evs and the queue q
publish(c, evs, q) ==
    LET maxBlockNum == IF trail > 0 THEN U64Sub(ChainHead(c).number, trail) ELSE 0
        e == enqueue(q, evs)
        d == dequeue(e.queue, maxBlockNum)
    IN  IF e.err # "nil"
        THEN [queue |-> q, sent |-> <<>>, err |-> e.err]
        ELSE [queue |-> d.queue, sent |-> d.events, err |-> "nil"]

\* lines 270-279 of monitor: publish the state s left by the log attachment;
\* a failed publish makes monitor, and Run, return ErrFatal
Finish(s) ==
    LET p == publish(s.chain, s.events, s.queue)
    IN  /\ chain' = s.chain
        /\ publishQueue' = p.queue
        /\ publishCh' = p.sent
        /\ replica' = Replay(replica, p.sent)
        /\ sent' = sent \o IdsOf(p.sent)
        /\ IF p.err # "nil" THEN pc' = "fatal" /\ events' = s.events /\ running' = 0
           ELSE IF p.sent # <<>> THEN pc' = "send" /\ events' = s.events /\ running' = running
           ELSE pc' = "poll" /\ events' = <<>> /\ running' = running

\* a failed resolution that makes monitor return the error
Retry_Return(r) ==
    /\ chain' = r.chain
    /\ events' = r.events
    /\ pc' = "fatal"
    /\ running' = 0
    /\ UNCHANGED <<publishQueue, publishCh, replica, sent, backfilled>>

\* lines 250-258: buildCanonicalChain returned r with an error: the cache and
\* the events stay as the resolver left them and the loop continues
Retry(r) ==
    /\ chain' = r.chain
    /\ events' = r.events
    /\ UNCHANGED <<publishQueue, publishCh, pc, running, replica, sent, backfilled>>

\* the bound on the rounds that fetch a block
RoundLimit == IF withLogs THEN MaxLogRounds ELSE MaxRounds

\* fetchBlockByNumber answered the block of hash h; stop: Stop() is called during
\* the round, after the last look of the round at the context
PollRound(stop) ==
    /\ pc = "poll"
    /\ ~ctxDone
    /\ rounds < RoundLimit
    /\ \E h \in Candidates(Probe), failAt \in 0..Len(chain) :
        LET r == buildCanonicalChain(chain, h, events, failAt, nextId)
            removed == CountEvent(r.events, "Removed") - CountEvent(events, "Removed")
            fetched == IF r.err = "fetchBlockByHash" THEN removed - 1 ELSE removed
        IN  /\ failAt > 0 => r.err = "fetchBlockByHash" /\ removed = failAt
            /\ nextBlockNumber' = Probe
            /\ consistent' = (consistent /\ ServedBlocks(h, fetched) \subseteq ConsistentHashes)
            /\ linear' = (linear /\ r.err = "nil" /\ removed = 0)
            /\ pollInterval' = pollInterval \div 2
            /\ rounds' = rounds + 1
            /\ nextId' = r.id
            /\ res' = [pre |-> chain, in |-> events, next |-> h, chain |-> r.chain,
                       events |-> r.events, err |-> r.err]
            /\ ctxDone' = stop
            /\ UNCHANGED <<optVars, latest, callVars, parentDone, exited, holding, fanVars>>
            /\ IF r.err # "nil"
               THEN Retry(r)
               ELSE IF withLogs
               THEN \E a1 \in Answers(r.events) :
                        LET s1 == addLogs(r.chain, r.events, publishQueue, a1)
                        IN  \E a2 \in Answers(s1.chain) :
                                LET s2 == backfillChainLogs(s1, a2)
                                IN  /\ Finish(s2)
                                    /\ backfilled' = backfilled \cup
                                         {id \in DOMAIN a2 \ Ids(r.events) :
                                             \E i \in 1..Len(s2.chain) :
                                                 s2.chain[i].id = id /\ s2.chain[i].ok}
               ELSE /\ Finish(withoutLogs(r.chain, r.events, publishQueue))
                    /\ UNCHANGED backfilled

PollBlock == PollRound(FALSE)

StopInRound == PollRound(TRUE)

(***************************************************************************)
(* The broadcast task of Run (lines 176-191) and Monitor.broadcast.        *)
(***************************************************************************)
\* task t receives the batch from m.publishCh; publish returns and monitor
\* clears the events sink
Receive(t) ==
    /\ pc = "send"
    /\ t \notin exited
    /\ holding[t] = <<>>
    /\ holding' = [holding EXCEPT ![t] = publishCh]
    /\ publishCh' = <<>>
    /\ events' = <<>>
    /\ pc' = "poll"
    /\ UNCHANGED <<optVars, latest, callVars, chain, nextBlockNumber, pollInterval, publishQueue, lifeVars,
                   fanVars, histVars>>

\* lines 180-181: task t finds the context passed to Run done and returns
TaskExit(t) ==
    /\ parentDone
    /\ t \notin exited
    /\ holding[t] = <<>>
    /\ exited' = exited \cup {t}
    /\ UNCHANGED <<optVars, latest, callVars, chain, nextBlockNumber, events, pollInterval, publishQueue,
                   publishCh, pc, running, ctxDone, parentDone, holding, fanVars, histVars>>

\* sub.ch.Send(events) for every subscriber of the registry, under m.mu
Sends(batch) ==
    [s \in 1..MaxSubs |->
        IF (\E i \in 1..Len(subscribers) : subscribers[i] = s) /\ s \notin closed
        THEN Append(delivered[s], batch)
        ELSE delivered[s]]

\* a broadcast on unbuffered subscriber channels: it waits for readers
Deliver_Unbuffered(t) ==
    /\ holding[t] # <<>>
    /\ \A i \in 1..Len(subscribers) : subscribers[i] \in closed
    /\ delivered' = Sends(holding[t])
    /\ holding' = [holding EXCEPT ![t] = <<>>]
    /\ UNCHANGED <<optVars, latest, callVars, chain, nextBlockNumber, events, pollInterval,
                   publishQueue, publishCh, pc, lifeVars, subscribers, closed, histVars>>

\* task t broadcasts the batch it holds
Deliver(t) ==
    /\ holding[t] # <<>>
    /\ delivered' = Sends(holding[t])
    /\ holding' = [holding EXCEPT ![t] = <<>>]
    /\ UNCHANGED <<optVars, latest, callVars, chain, nextBlockNumber, events, pollInterval, publishQueue,
                   publishCh, pc, lifeVars, subscribers, closed, histVars>>

(***************************************************************************)
(* Monitor.Subscribe and the unsubscribe closure.                          *)
(***************************************************************************)
Registered(s) == \E i \in 1..Len(subscribers) : subscribers[i] = s

Subscribe(s) ==
    /\ ~Registered(s)
    /\ s \notin closed
    /\ subscribers' = Append(subscribers, s)
    /\ UNCHANGED <<optVars, latest, callVars, chain, nextBlockNumber, events, pollInterval, publishQueue,
                   publishCh, pc, lifeVars, holding, delivered, closed, histVars>>

\* lines 546-548: close(done), ch.Close(), ch.Flush()
UnsubscribeClose(s) ==
    /\ Registered(s)
    /\ s \notin closed
    /\ closed' = closed \cup {s}
    /\ UNCHANGED <<optVars, latest, callVars, chain, nextBlockNumber, events, pollInterval, publishQueue,
                   publishCh, pc, lifeVars, holding, subscribers, delivered, histVars>>

\* a removal that cuts the registry at the subscriber
UnsubscribeRemove_Truncate(s) ==
    /\ Registered(s)
    /\ s \in closed
    /\ subscribers' = SubSeq(subscribers, 1,
                             (CHOOSE i \in 1..Len(subscribers) : subscribers[i] = s) - 1)
    /\ UNCHANGED <<optVars, latest, callVars, chain, nextBlockNumber, events, pollInterval,
                   publishQueue, publishCh, pc, lifeVars, holding, delivered, closed,
                   histVars>>

\* lines 550-558: under m.mu, the subscriber is removed from the registry
UnsubscribeRemove(s) ==
    /\ Registered(s)
    /\ s \in closed
    /\ subscribers' = SelectSeq(subscribers, LAMBDA x : x # s)
    /\ UNCHANGED <<optVars, latest, callVars, chain, nextBlockNumber, events, pollInterval, publishQueue,
                   publishCh, pc, lifeVars, holding, delivered, closed, histVars>>

\* Subscription.Unsubscribe called again on a subscription whose closure has
\* run or is running (specification 4.3: unsubscribe is idempotent): no effect
UnsubscribeAgain(s) ==
    /\ s \in closed
    /\ again[s] < MaxAgain
    /\ again' = [again EXCEPT ![s] = @ + 1]
    /\ UNCHANGED <<optVars, latest, callers, fetch, final, chain, nextBlockNumber, events,
                   pollInterval, publishQueue, publishCh, pc, lifeVars, holding, fanVars,
                   histVars>>

(***************************************************************************)
(* Monitor.fetchBlockByNumber and Monitor.fetchBlockByHash, one iteration  *)
(* of their loops at a time.  The provider answers a block, NotFound, one  *)
(* of ProviderErrors or, by hash, neither a block nor an error.            *)
(***************************************************************************)
\* line 430 and line 467
maxErrAttempts == 10

\* line 466
maxNotFoundAttempts == 4

ProviderErrors == {"timeout", "refused"}

\* the answer counted by the model, whatever the function does with it
Counted(f, answer) ==
    [f EXCEPT !.calls = @ + 1,
              !.nf = IF answer = "NotFound" THEN @ + 1 ELSE @,
              !.er = IF answer \in ProviderErrors THEN @ + 1 ELSE @,
              !.ok = IF answer = "block" THEN @ + 1 ELSE @,
              !.nils = IF answer = "nil" THEN @ + 1 ELSE @]

\* a fetch by number that counts NotFound as one more failed attempt
byNumberAnswer_RetryNotFound(f, answer) ==
    IF answer = "block" THEN [f EXCEPT !.result = "block", !.err = "nil"]
    ELSE [f EXCEPT !.errAttempts = @ + 1, !.err = answer]

\* lines 450-461: fetchBlockByNumber on the answer of provider.BlockByNumber
byNumberAnswer(f, answer) ==
    IF answer = "NotFound" THEN [f EXCEPT !.result = "NotFound", !.err = answer]
    ELSE IF answer \in ProviderErrors
    THEN [f EXCEPT !.errAttempts = @ + 1, !.err = answer]
    ELSE [f EXCEPT !.result = "block", !.err = "nil"]

\* a fetch by hash with one counter for both kinds of failure
byHashAnswer_OneCounter(f, answer) ==
    IF answer = "NotFound"
    THEN [f EXCEPT !.notFoundAttempts = @ + 1, !.errAttempts = @ + 1, !.err = answer]
    ELSE IF answer \in ProviderErrors
    THEN [f EXCEPT !.errAttempts = @ + 1, !.err = answer]
    ELSE IF answer = "block" THEN [f EXCEPT !.result = "block", !.err = "nil"]
    ELSE [f EXCEPT !.err = "nil"]

\* lines 487-501: fetchBlockByHash on the answer of provider.BlockByHash
byHashAnswer(f, answer) ==
    IF answer = "NotFound" THEN [f EXCEPT !.notFoundAttempts = @ + 1, !.err = answer]
    ELSE IF answer \in ProviderErrors
    THEN [f EXCEPT !.errAttempts = @ + 1, !.err = answer]
    ELSE IF answer = "block" THEN [f EXCEPT !.result = "block", !.err = "nil"]
    ELSE [f EXCEPT !.err = "nil"]

\* lines 436-440 and 473-477: the context is done at the top of the loop
FetchCancelled ==
    /\ fetch.fn # "none"
    /\ fetch.result = "none"
    /\ ctxDone
    /\ fetch' = [fetch EXCEPT !.result = "ctxErr"]
    /\ UNCHANGED <<optVars, latest, callers, again, final, chain, nextBlockNumber, events,
                   pollInterval, publishQueue, publishCh, pc, lifeVars, holding, fanVars,
                   histVars>>

\* lines 479-485: fetchBlockByHash has used up its NotFound answers
FetchNotFoundLimit ==
    /\ fetch.fn = "byHash"
    /\ fetch.result = "none"
    /\ ~ctxDone
    /\ fetch.notFoundAttempts >= maxNotFoundAttempts
    /\ fetch' = [fetch EXCEPT !.result = "NotFound"]
    /\ UNCHANGED <<optVars, latest, callers, again, final, chain, nextBlockNumber, events,
                   pollInterval, publishQueue, publishCh, pc, lifeVars, holding, fanVars,
                   histVars>>

\* lines 442-445 and 482-485: the failed attempts are used up: ErrMaxAttempts
\* wrapping the last error
FetchErrLimit ==
    /\ fetch.fn # "none"
    /\ fetch.result = "none"
    /\ ~ctxDone
    /\ fetch.fn = "byHash" => fetch.notFoundAttempts < maxNotFoundAttempts
    /\ fetch.errAttempts >= maxErrAttempts
    /\ fetch' = [fetch EXCEPT !.result = "ErrMaxAttempts", !.wrapped = fetch.err]
    /\ UNCHANGED <<optVars, latest, callers, again, final, chain, nextBlockNumber, events,
                   pollInterval, publishQueue, publishCh, pc, lifeVars, holding, fanVars,
                   histVars>>

\* lines 447-461 and 487-501: the provider is called and answers
FetchCall(answer) ==
    /\ fetch.fn # "none"
    /\ fetch.result = "none"
    /\ ~ctxDone
    /\ fetch.fn = "byHash" => fetch.notFoundAttempts < maxNotFoundAttempts
    /\ fetch.errAttempts < maxErrAttempts
    /\ answer = "nil" => (fetch.fn = "byHash" /\ fetch.nils < MaxNilAnswers)
    /\ fetch' = IF fetch.fn = "byNumber" THEN byNumberAnswer(Counted(fetch, answer), answer)
                ELSE byHashAnswer(Counted(fetch, answer), answer)
    /\ UNCHANGED <<optVars, latest, callers, again, final, chain, nextBlockNumber, events,
                   pollInterval, publishQueue, publishCh, pc, lifeVars, holding, fanVars,
                   histVars>>

(***************************************************************************)
(* Monitor.Run called by concurrent callers: the test of m.running (lines  *)
(* 133-135) and the store to it (line 139) are two steps of a caller.      *)
(***************************************************************************)
\* lines 133-135: caller c loads m.running and returns "already running" on 1
RunCheck(c) ==
    /\ callers[c] = "out"
    /\ Len(holding) + Cardinality({d \in DOMAIN callers : callers[d] = "checked"}) < MaxCallers
    /\ callers' = [callers EXCEPT ![c] = IF running = 1 THEN "rejected" ELSE "checked"]
    /\ UNCHANGED <<optVars, latest, again, fetch, final, chain, nextBlockNumber, events,
                   pollInterval, publishQueue, publishCh, pc, lifeVars, holding, fanVars,
                   histVars>>

\* lines 137-194: caller c, past the test, makes m.ctx, stores 1 to m.running,
\* sets the next block number, starts a broadcast task and enters the loop
RunEnter(c) ==
    /\ callers[c] = "checked"
    /\ callers' = [callers EXCEPT ![c] = "loop"]
    /\ running' = 1
    /\ ctxDone' = FALSE
    /\ nextBlockNumber' = StartNumber(Nil)
    /\ holding' = Append(holding, <<>>)
    /\ pc' = "poll"
    /\ UNCHANGED <<optVars, latest, again, fetch, final, chain, events, pollInterval,
                   publishQueue, publishCh, parentDone, exited, fanVars, histVars>>

\* lines 225-226 and 140: the loop of caller c finds m.ctx done, monitor and
\* Run return nil and the deferred store resets m.running
RunReturn(c) ==
    /\ callers[c] = "loop"
    /\ ctxDone
    /\ callers' = [callers EXCEPT ![c] = "out"]
    /\ running' = 0
    /\ pc' = IF \E d \in DOMAIN callers : d # c /\ callers[d] = "loop" THEN pc ELSE "stopped"
    /\ UNCHANGED <<optVars, latest, again, fetch, final, chain, nextBlockNumber, events,
                   pollInterval, publishQueue, publishCh, ctxDone, parentDone, exited,
                   holding, fanVars, histVars>>

\* the caller of a rejected Run has its error and may call again
RunRejected(c) ==
    /\ callers[c] = "rejected"
    /\ callers' = [callers EXCEPT ![c] = "out"]
    /\ UNCHANGED <<optVars, latest, again, fetch, final, chain, nextBlockNumber, events,
                   pollInterval, publishQueue, publishCh, pc, lifeVars, holding, fanVars,
                   histVars>>

(***************************************************************************)
(* Monitor.LatestFinalBlock.                                               *)
(***************************************************************************)
\* a LatestFinalBlock that returns the head whatever the depth asked for
LatestFinalBlock_Head(c, numBlocksToFinality) ==
    LET n == Len(c)
    IN  IF n < numBlocksToFinality + 1 THEN <<>>
        ELSE <<c[n]>>

\* lines 592-604 on the cache c: <<>> for nil, else the block (c is indexed
\* from 1, m.chain.blocks from 0)
LatestFinalBlock(c, numBlocksToFinality) ==
    LET n == Len(c)
    IN  IF n < numBlocksToFinality + 1 THEN <<>>
        ELSE <<c[(n - numBlocksToFinality - 1) + 1]>>

\* a caller asks for the latest final block
LatestFinalBlockCall(numBlocksToFinality) ==
    /\ final' = [n |-> numBlocksToFinality,
                 block |-> LatestFinalBlock(chain, numBlocksToFinality)]
    /\ UNCHANGED <<optVars, latest, callers, again, fetch, chain, nextBlockNumber,
                   events, pollInterval, publishQueue, publishCh, pc, lifeVars, holding,
                   fanVars, histVars>>

(***************************************************************************)
(* Monitor.PurgeHistory.                                                   *)
(***************************************************************************)
\* lines 636-640 on the cache c: blocks[1:1] is the slice from index 1 up to,
\* and not including, index 1
PurgeHistory(c) == IF Len(c) > 1 THEN SubSeq(c, 1 + 1, 1) ELSE c

\* a caller purges the history, under m.mu and the mutex of the chain
PurgeHistoryCall ==
    /\ chain' = PurgeHistory(chain)
    /\ UNCHANGED <<optVars, latest, callVars, nextBlockNumber, events, pollInterval,
                   publishQueue, publishCh, pc, lifeVars, holding, fanVars, histVars>>

(***************************************************************************)
(* Specifications.  Spec: one Run of the monitor task and its broadcast    *)
(* task.  SpecFanout: restarts (Stop, Run) and subscribers too, without    *)
(* trail and logs.                                                         *)
(***************************************************************************)
Next ==
    \/ Run
    \/ PollNotFound
    \/ PollFetchError
    \/ PollBlock
    \/ \E t \in 1..Len(holding) : Receive(t)
    \/ \E t \in 1..Len(holding) : Deliver(t)

Spec == Init /\ [][Next]_vars

InitFanout == Init /\ trail = 0 /\ ~withLogs /\ startBlockNumber = 1

NextFanout ==
    \/ Run
    \/ Stop
    \/ MonitorExit
    \/ PollNotFound
    \/ PollFetchError
    \/ (rounds < MaxFanoutRounds /\ PollBlock)
    \/ \E t \in 1..Len(holding) : Receive(t)
    \/ \E t \in 1..Len(holding) : Deliver(t)
    \/ \E s \in 1..MaxSubs : Subscribe(s)
    \/ \E s \in 1..MaxSubs : UnsubscribeClose(s)
    \/ \E s \in 1..MaxSubs : UnsubscribeRemove(s)

SpecFanout == InitFanout /\ [][NextFanout]_vars

(***************************************************************************)
(* SpecQueue: the monitor in the middle of a Run with a trail of one       *)
(* block, after the rounds that left n batches on the publish queue: block *)
(* 1 was released when it was the head, then block 2 arrived and the       *)
(* provider changed its mind about it n - 1 times, between the forks A and *)
(* B of block 2, every batch of number 2 waiting on the queue for the head *)
(* to reach 3. rounds counts the rounds from that state on. The context    *)
(* passed to Run can be cancelled, Stop can land inside a round, and a     *)
(* broadcast task can return; the Run is followed to its return.           *)
(***************************************************************************)
\* a block as the rounds before left it: logs attached or cleared, ok
Done(h, id) ==
    [NewBlock(h, id) EXCEPT !.ok = TRUE,
                            !.logs = IF ~withLogs THEN "nil"
                                     ELSE IF BloomNonZero(h) THEN "some" ELSE "empty"]

\* the fork of block 2 that the k-th of these rounds found
FlapHash(k) == HashOf(2, IF k % 2 = 1 THEN 1 ELSE 2)

\* the batch of the k-th round: the first adds block 2, the later ones replace it
FlapBatch(k) ==
    IF k = 1 THEN <<Done(FlapHash(1), 2)>>
    ELSE <<PoppedBlock(Done(FlapHash(k - 1), 2 * (k - 1)), 2 * k - 1),
           Done(FlapHash(k), 2 * k)>>

InitQueue ==
    /\ trail = 1
    /\ withLogs \in BOOLEAN
    /\ startBlockNumber = 1
    /\ \E n \in 0..QueueCapacity :
        /\ publishQueue = [k \in 1..n |-> FlapBatch(k)]
        /\ chain = IF n = 0 THEN <<Done(HashOf(1, 1), 1)>>
                   ELSE <<Done(HashOf(1, 1), 1), Done(FlapHash(n), 2 * n)>>
        /\ nextBlockNumber = IF n = 0 THEN 1 ELSE 2
        /\ nextId = 2 * n + 1 + (IF n = 0 THEN 1 ELSE 0)
        /\ linear = (n <= 1)
    /\ events = <<>>
    /\ pollInterval = PollingInterval
    /\ publishCh = <<>>
    /\ pc = "poll"
    /\ running = 1
    /\ ctxDone = FALSE
    /\ parentDone = FALSE
    /\ exited = {}
    /\ holding = << <<>> >>
    /\ subscribers = <<>>
    /\ delivered = [s \in 1..MaxSubs |-> <<>>]
    /\ closed = {}
    /\ res = [pre |-> <<>>, in |-> <<>>, next |-> 0, chain |-> <<>>, events |-> <<>>,
              err |-> "none"]
    /\ replica = <<HashOf(1, 1)>>
    /\ sent = <<1>>
    /\ backfilled = {}
    /\ consistent = TRUE
    /\ rounds = 0
    /\ bootstrap = FALSE
    /\ logTopics = "unknown"
    /\ latest = Nil
    /\ NoCalls

\* the bound on the rounds of SpecQueue that fetch a block
QueueRoundLimit == IF withLogs THEN MaxQueueLogRounds ELSE MaxQueueRounds

NextQueue ==
    \/ Stop
    \/ (rounds < QueueRoundLimit /\ StopInRound)
    \/ CancelCtx
    \/ MonitorExit
    \/ PollNotFound
    \/ PollFetchError
    \/ (rounds < QueueRoundLimit /\ PollBlock)
    \/ \E t \in 1..Len(holding) : Receive(t)
    \/ \E t \in 1..Len(holding) : Deliver(t)
    \/ \E t \in 1..Len(holding) : TaskExit(t)

SpecQueue == InitQueue /\ [][NextQueue]_vars

\* SpecStop: SpecQueue with the scheduling of the Go runtime: a goroutine that
\* can take a step takes it
LiveQueue ==
    /\ WF_vars(MonitorExit)
    /\ WF_vars(\E t \in 1..Len(holding) : Receive(t))
    /\ WF_vars(\E t \in 1..Len(holding) : Deliver(t))

SpecStop == InitQueue /\ [][NextQueue]_vars /\ LiveQueue

(***************************************************************************)
(* SpecStart: Run from every start configuration: StartBlockNumber not     *)
(* set, positive, zero or negative, Bootstrap mode or not, and in          *)
(* Bootstrap mode a cache that was handed blocks before Run or was not;    *)
(* with Stop and a later Run, without trail and logs.                      *)
(***************************************************************************)
\* the cache as a bootstrap left it: the first n blocks of the main line from 1
BootstrapChain(n) == [i \in 1..n |-> Done(HashOf(i, 1), i)]

InitStart ==
    /\ trail = 0
    /\ withLogs = FALSE
    /\ bootstrap \in BOOLEAN
    /\ logTopics = "unknown"
    /\ startBlockNumber \in {Nil} \cup ((0 - MaxBack)..1)
    /\ \E n \in 0..(IF bootstrap THEN BlockRetentionLimit ELSE 0) :
        /\ chain = BootstrapChain(n)
        /\ replica = Hashes_(BootstrapChain(n))
        /\ nextId = n + 1
    /\ nextBlockNumber = Nil
    /\ events = <<>>
    /\ pollInterval = PollingInterval
    /\ publishQueue = <<>>
    /\ publishCh = <<>>
    /\ pc = "idle"
    /\ running = 0
    /\ ctxDone = FALSE
    /\ parentDone = FALSE
    /\ exited = {}
    /\ holding = <<>>
    /\ subscribers = <<>>
    /\ delivered = [s \in 1..MaxSubs |-> <<>>]
    /\ closed = {}
    /\ res = [pre |-> <<>>, in |-> <<>>, next |-> 0, chain |-> <<>>, events |-> <<>>,
              err |-> "none"]
    /\ sent = <<>>
    /\ backfilled = {}
    /\ linear = TRUE
    /\ consistent = TRUE
    /\ rounds = 0
    /\ latest = Nil
    /\ NoCalls

NextStart ==
    \/ Run
    \/ RunBootstrapError
    \/ Stop
    \/ MonitorExit
    \/ PollNotFound
    \/ PollFetchError
    \/ (rounds < MaxStartRounds /\ PollBlock)
    \/ \E t \in 1..Len(holding) : Receive(t)
    \/ \E t \in 1..Len(holding) : Deliver(t)

SpecStart == InitStart /\ [][NextStart]_vars

\* SpecRun: Run called by MaxCallers concurrent callers, and Stop; the rounds
\* of the loops are left out
InitRun == Init /\ trail = 0 /\ ~withLogs /\ startBlockNumber = 1

NextRun ==
    \/ \E c \in 1..MaxCallers : RunCheck(c)
    \/ \E c \in 1..MaxCallers : RunEnter(c)
    \/ \E c \in 1..MaxCallers : RunReturn(c)
    \/ \E c \in 1..MaxCallers : RunRejected(c)
    \/ Stop

SpecRun == InitRun /\ [][NextRun]_vars

\* SpecSubs: subscribers that come, go and call Unsubscribe again, while the
\* monitor is started and stopped; the rounds of the loop are left out
NextSubs ==
    \/ Run
    \/ Stop
    \/ MonitorExit
    \/ \E s \in 1..MaxSubs : Subscribe(s)
    \/ \E s \in 1..MaxSubs : UnsubscribeClose(s)
    \/ \E s \in 1..MaxSubs : UnsubscribeRemove(s)
    \/ \E s \in 1..MaxSubs : UnsubscribeAgain(s)

SpecSubs == InitRun /\ [][NextSubs]_vars

\* SpecSlow: one Run of MaxSubRounds rounds with subscribers that come and
\* never read their channel, with the scheduling of the Go runtime for the
\* broadcast task
NextSlow ==
    \/ Run
    \/ (rounds < MaxSubRounds /\ PollBlock)
    \/ \E t \in 1..Len(holding) : Receive(t)
    \/ \E t \in 1..Len(holding) : Deliver(t)
    \/ \E s \in 1..MaxSubs : Subscribe(s)

SpecSlow ==
    /\ InitRun
    /\ [][NextSlow]_vars
    /\ WF_vars(\E t \in 1..Len(holding) : Receive(t))
    /\ WF_vars(\E t \in 1..Len(holding) : Deliver(t))

\* SpecFetch: one call of fetchBlockByNumber or of fetchBlockByHash by a
\* running monitor, against every sequence of provider answers, and Stop
InitFetch ==
    /\ trail = 0
    /\ withLogs = FALSE
    /\ startBlockNumber = 1
    /\ bootstrap = FALSE
    /\ logTopics = "unknown"
    /\ chain = <<>>
    /\ nextBlockNumber = 1
    /\ events = <<>>
    /\ pollInterval = PollingInterval
    /\ publishQueue = <<>>
    /\ publishCh = <<>>
    /\ pc = "poll"
    /\ running = 1
    /\ ctxDone = FALSE
    /\ parentDone = FALSE
    /\ exited = {}
    /\ holding = << <<>> >>
    /\ subscribers = <<>>
    /\ delivered = [s \in 1..MaxSubs |-> <<>>]
    /\ closed = {}
    /\ res = [pre |-> <<>>, in |-> <<>>, next |-> 0, chain |-> <<>>, events |-> <<>>,
              err |-> "none"]
    /\ replica = <<>>
    /\ sent = <<>>
    /\ backfilled = {}
    /\ linear = TRUE
    /\ consistent = TRUE
    /\ nextId = 1
    /\ rounds = 0
    /\ latest = Nil
    /\ callers = [c \in 1..MaxCallers |-> "out"]
    /\ again = [s \in 1..MaxSubs |-> 0]
    /\ final = [n |-> Nil, block |-> <<>>]
    /\ fetch \in {NewFetch("byNumber"), NewFetch("byHash")}

NextFetch ==
    \/ Stop
    \/ FetchCancelled
    \/ FetchNotFoundLimit
    \/ FetchErrLimit
    \/ \E answer \in {"block", "NotFound", "nil"} \cup ProviderErrors : FetchCall(answer)

SpecFetch == InitFetch /\ [][NextFetch]_vars

\* SpecFinal: one Run from the same start configurations, with a caller that
\* asks for the latest final block at any moment
NextFinal ==
    \/ Run
    \/ RunBootstrapError
    \/ PollNotFound
    \/ (rounds < MaxStartRounds /\ PollBlock)
    \/ \E t \in 1..Len(holding) : Receive(t)
    \/ \E t \in 1..Len(holding) : Deliver(t)
    \/ \E n \in 0..MaxFinality : LatestFinalBlockCall(n)

SpecFinal == InitStart /\ [][NextFinal]_vars

\* SpecPurge: one Run without trail and logs, with a caller that purges the
\* history at any moment
NextPurge ==
    \/ Run
    \/ PollNotFound
    \/ (rounds < MaxPurgeRounds /\ PollBlock)
    \/ \E t \in 1..Len(holding) : Receive(t)
    \/ \E t \in 1..Len(holding) : Deliver(t)
    \/ PurgeHistoryCall

SpecPurge == InitRun /\ [][NextPurge]_vars

\* SpecTopics: one Run with WithLogs against a provider whose FilterLogs
\* always succeeds and answers truthfully, without a topic filter or with one
\* that matches no log, with the scheduling of the Go runtime for the
\* broadcast task, and a provider that has a new block for every round of the
\* run
InitTopics ==
    /\ trail \in 0..MaxTrail
    /\ withLogs = TRUE
    /\ startBlockNumber \in {0, 1}
    /\ bootstrap = FALSE
    /\ logTopics \in {"none", "nomatch"}
    /\ chain = <<>>
    /\ nextBlockNumber = Nil
    /\ events = <<>>
    /\ pollInterval = PollingInterval
    /\ publishQueue = <<>>
    /\ publishCh = <<>>
    /\ pc = "idle"
    /\ running = 0
    /\ ctxDone = FALSE
    /\ parentDone = FALSE
    /\ exited = {}
    /\ holding = <<>>
    /\ subscribers = <<>>
    /\ delivered = [s \in 1..MaxSubs |-> <<>>]
    /\ closed = {}
    /\ res = [pre |-> <<>>, in |-> <<>>, next |-> 0, chain |-> <<>>, events |-> <<>>,
              err |-> "none"]
    /\ replica = <<>>
    /\ sent = <<>>
    /\ backfilled = {}
    /\ linear = TRUE
    /\ consistent = TRUE
    /\ nextId = 1
    /\ rounds = 0
    /\ latest = Nil
    /\ NoCalls

NextTopics ==
    \/ Run
    \/ PollNotFound
    \/ PollBlock
    \/ \E t \in 1..Len(holding) : Receive(t)
    \/ \E t \in 1..Len(holding) : Deliver(t)

SpecTopics ==
    /\ InitTopics
    /\ [][NextTopics]_vars
    /\ WF_vars(\E t \in 1..Len(holding) : Receive(t))
    /\ WF_vars(\E t \in 1..Len(holding) : Deliver(t))
    /\ <>(rounds >= RoundLimit)

(***************************************************************************)
(* SpecLogs: Monitor.addLogs on its own, called on a list of one or more   *)
(* blocks as the monitor holds them: an Added block not yet ok, an Added   *)
(* block that is ok, or a Removed copy (ok); the provider answers any of   *)
(* "err", "empty", "some" whatever the bloom of the block.                 *)
(***************************************************************************)
\* one block of non-zero bloom and one of zero bloom
LogHashes == {HashOf(1, 1), HashOf(2, 1)}

BlockShapes(id) ==
    {NewBlock(h, id) : h \in LogHashes}
        \cup {[NewBlock(h, id) EXCEPT !.event = ev, !.ok = TRUE, !.logs = l] :
                 h \in LogHashes, ev \in {"Added", "Removed"},
                 l \in {"nil", "empty", "some"}}

RECURSIVE BlockLists(_)
BlockLists(n) ==
    IF n = 0 THEN {<<>>}
    ELSE {Append(l, b) : l \in BlockLists(n - 1), b \in BlockShapes(n)}

InitLogs ==
    /\ trail = 0
    /\ withLogs = TRUE
    /\ startBlockNumber = 0
    /\ chain = <<>>
    /\ nextBlockNumber = Nil
    /\ events \in UNION {BlockLists(n) : n \in 1..MaxLogBlocks}
    /\ pollInterval = PollingInterval
    /\ publishQueue = <<>>
    /\ publishCh = <<>>
    /\ pc = "addLogs"
    /\ running = 1
    /\ ctxDone = FALSE
    /\ parentDone = FALSE
    /\ exited = {}
    /\ holding = <<>>
    /\ subscribers = <<>>
    /\ delivered = [s \in 1..MaxSubs |-> <<>>]
    /\ closed = {}
    /\ res = [pre |-> <<>>, answers |-> <<>>]
    /\ replica = <<>>
    /\ sent = <<>>
    /\ backfilled = {}
    /\ linear = TRUE
    /\ consistent = TRUE
    /\ nextId = MaxLogBlocks + 1
    /\ rounds = 0
    /\ bootstrap = FALSE
    /\ logTopics = "unknown"
    /\ latest = Nil
    /\ NoCalls

\* m.addLogs(ctx, events) with the provider's answers ans
AddLogsCall ==
    /\ pc = "addLogs"
    /\ \E ans \in [Pending(events) -> {"err", "empty", "some"}] :
           /\ events' = Written(events, ans)
           /\ res' = [pre |-> events, answers |-> ans]
    /\ pc' = "done"
    /\ UNCHANGED <<optVars, latest, callVars, chain, nextBlockNumber, pollInterval, publishQueue, publishCh,
                   lifeVars, holding, fanVars, replica, sent, backfilled, linear,
                   consistent, nextId, rounds>>

SpecLogs == InitLogs /\ [][AddLogsCall]_vars

(***************************************************************************)
(* Claims.                                                                 *)
(***************************************************************************)
IsSuffix(s, t) ==
    Len(s) <= Len(t) /\ s = SubSeq(t, Len(t) - Len(s) + 1, Len(t))

Linked(c) ==
    \A i \in 1..(Len(c) - 1) :
        c[i + 1].parentHash = c[i].hash /\ c[i + 1].number = c[i].number + 1

\* C1: in every reachable state every adjacent pair of cached blocks satisfies
\* child.parentHash = parent.hash and child.number = parent.number + 1.
C1_CacheLinked == Linked(chain)

\* a resolution that failed was retried with success and left two or more blocks
C1_Witness == Len(chain) >= 2 /\ res.err = "nil" /\ res.in # <<>>

\* C2: with no trail, the batches handed to the publish channel, replayed on the
\* cache of Run's start, give the cache at the moment of the latest publish, up
\* to the eviction of the oldest blocks.
C2_ReplayIsCache ==
    (trail = 0 /\ pc = "send") => IsSuffix(Hashes_(chain), replica)

\* the events appended by the last resolution, and the number of blocks it popped
Emitted == SubSeq(res.events, Len(res.in) + 1, Len(res.events))

Depth == CountEvent(Emitted, "Removed")

KeepLast(s, n) == IF Len(s) > n THEN SubSeq(s, Len(s) - n + 1, Len(s)) ELSE s

\* C3: a resolution of depth k that met no fetch or push error emits the k Removed
\* events of the popped blocks, newest first, then the k+1 Added events of the new
\* chain, ancestor first and ending with the fetched block, and leaves the cache
\* made of the blocks that were not popped followed by the new chain.
C3_ReorgBatchShape ==
    res.err = "nil" =>
        LET k == Depth
            n == Len(res.pre)
            added == SubSeq(Emitted, k + 1, Len(Emitted))
        IN  /\ Len(Emitted) = 2 * k + 1
            /\ \A i \in 1..k :
                   /\ Emitted[i].event = "Removed"
                   /\ Emitted[i].hash = res.pre[n - i + 1].hash
            /\ \A i \in 1..Len(added) : added[i].event = "Added"
            /\ Linked(added)
            /\ added[Len(added)].hash = res.next
            /\ k < n => added[1].parentHash = res.pre[n - k].hash
            /\ Hashes_(res.chain) =
                   KeepLast(Hashes_(SubSeq(res.pre, 1, n - k)) \o Hashes_(added),
                            RetentionLimit)

\* a reorg of depth 2 resolved in one resolution
C3_Witness == res.err = "nil" /\ res.in = <<>> /\ Depth = 2

RemovedFirst(batch) ==
    \A i, j \in 1..Len(batch) :
        (i < j /\ batch[i].event = "Added") => batch[j].event = "Added"

\* C4: in every batch handed to the publish channel all Removed entries come
\* before all Added entries.
C4_RemovedBeforeAdded == pc = "send" => RemovedFirst(publishCh)

\* pop for each Removed, push for each Added
RECURSIVE ReplayCache(_, _)
ReplayCache(c, batch) ==
    IF batch = <<>> THEN c
    ELSE ReplayCache(IF batch[1].event = "Added" THEN push(c, batch[1]).chain ELSE pop(c),
                     Tail(batch))

\* C5: replaying the batch emitted by a resolution on a replica of the cache
\* before the resolution yields the cache after it.
C5_ReplayYieldsCache == res.err = "nil" => ReplayCache(res.pre, Emitted) = res.chain

\* a reorg whose replay evicts from the replica
C5_Witness ==
    res.err = "nil" /\ Depth >= 1 /\ Len(res.pre) = RetentionLimit
        /\ Len(res.chain) = RetentionLimit

\* C6: with a trail of k > 0 no batch handed to the publish channel holds an Added
\* block of number greater than cacheHead.number - k.
C6_TrailRespected ==
    (trail > 0 /\ pc = "send") =>
        \A i \in 1..Len(publishCh) :
            publishCh[i].event = "Added" =>
                publishCh[i].number + trail <= ChainHead(chain).number

Min(a, b) == IF a < b THEN a ELSE b

Max(a, b) == IF a > b THEN a ELSE b

\* C7: under linear growth with a trail of k the batch of block i is released in
\* the round in which the head reaches i + k: after r rounds the first r - k
\* blocks are published and the newest k are queued.
C7_ReleasedAtTrail ==
    (linear /\ trail > 0) =>
        /\ Len(replica) = Max(0, rounds - trail)
        /\ Len(publishQueue) = Min(rounds, trail)

NoDuplicates(s) == \A i, j \in 1..Len(s) : s[i] = s[j] => i = j

C10_PublishedWithLogs ==
    (withLogs /\ pc = "send") =>
        \A i \in 1..Len(publishCh) :
            publishCh[i].event = "Added" =>
                publishCh[i].ok /\ publishCh[i].logs # "nil"

\* the ids of the events of a sequence of batches, in order
RECURSIVE FlatIds(_)
FlatIds(batches) ==
    IF batches = <<>> THEN <<>> ELSE IdsOf(batches[1]) \o FlatIds(Tail(batches))

IsSegment(s, t) ==
    \E off \in 0..(Len(t) - Len(s)) : s = SubSeq(t, off + 1, off + Len(s))

\* C8: the batches sent to any one subscriber are, in order, consecutive batches
\* of the global publish order: none is reordered, skipped or inserted.  (The
\* claim asks for a prefix, which is more.)
C8_SubscriberOrder ==
    \A s \in 1..MaxSubs : IsSegment(FlatIds(delivered[s]), sent)

\* C11: every Removed block of a batch handed to the publish channel has
\* ok = true and carries no logs (an empty list counts as no logs), with
\* WithLogs false as with WithLogs true.
C11_RemovedNoLogs ==
    pc = "send" =>
        \A i \in 1..Len(publishCh) :
            publishCh[i].event = "Removed" =>
                publishCh[i].ok /\ publishCh[i].logs # "some"

\* C12: addLogs gives an Added block that is not ok the returned list and ok = true
\* exactly when the call succeeded and the list is non-empty or the bloom is
\* zero; otherwise it leaves it with ok = false and logs = nil; a block that is
\* Removed or already ok gets no provider call and is left as it was.
C12_AddLogs ==
    pc = "done" =>
        \A i \in 1..Len(res.pre) :
            LET b == res.pre[i]
                b2 == events[i]
            IN  IF b.event = "Added" /\ ~b.ok
                THEN /\ b.id \in DOMAIN res.answers
                     /\ LET a == res.answers[b.id]
                        IN  IF a # "err" /\ (a = "some" \/ ~BloomNonZero(b.hash))
                            THEN b2 = [b EXCEPT !.ok = TRUE, !.logs = a]
                            ELSE b2 = [b EXCEPT !.ok = FALSE, !.logs = "nil"]
                ELSE b.id \notin DOMAIN res.answers /\ b2 = b

\* an empty answer for a pending block of non-zero bloom, next to a skipped block
C12_Witness ==
    /\ pc = "done"
    /\ \E i \in 1..Len(res.pre) :
           /\ res.pre[i].id \in DOMAIN res.answers
           /\ res.answers[res.pre[i].id] = "empty"
           /\ BloomNonZero(res.pre[i].hash)
           /\ ~events[i].ok
    /\ \E i \in 1..Len(res.pre) : res.pre[i].id \notin DOMAIN res.answers

\* C13: a cached Added block that a backfill sweep of a later round completes gets
\* logs and ok = true, and is published with the logs attached: it was not handed
\* to the publish channel before the sweep completed it.
C13_BackfilledThenPublished ==
    [][\A id \in backfilled' \ backfilled :
           /\ \E i \in 1..Len(chain') :
                  chain'[i].id = id /\ chain'[i].ok /\ chain'[i].logs # "nil"
           /\ \A j \in 1..Len(sent) : sent[j] # id]_vars

\* C14: a round in which the provider answers NotFound changes neither the cache
\* nor the publish queue, publishes nothing, leaves the probed number where it
\* was and resets the poll interval to PollingInterval.
C14_NotFoundFrame ==
    [][PollNotFound =>
           /\ chain' = chain
           /\ publishQueue' = publishQueue
           /\ events' = events
           /\ publishCh' = publishCh
           /\ sent' = sent
           /\ pc' = pc
           /\ Probe' = Probe
           /\ pollInterval' = PollingInterval]_vars

\* after a round that halved the interval and published, the interval was reset,
\* and the block that appeared in a later round is being published
C14_Witness ==
    /\ pc = "send"
    /\ rounds >= 2
    /\ pollInterval = PollingInterval \div 2
    /\ Len(sent) = rounds

\* under linear growth without logs and without trail: one batch of one Added
\* entry per discovered block, handed to the publish channel in increasing
\* block-number order, and the cache holds the newest blocks in arrival order
LinearGrowthPublished ==
    (linear /\ ~withLogs /\ trail = 0) =>
        /\ Len(sent) = rounds
        /\ Len(replica) = rounds
        /\ \A i \in 1..(Len(replica) - 1) : Number(replica[i + 1]) = Number(replica[i]) + 1
        /\ Hashes_(chain) = KeepLast(replica, RetentionLimit)
        /\ pc = "send" =>
               /\ Len(publishCh) = 1
               /\ publishCh[1].event = "Added"
               /\ publishCh[1].hash = replica[Len(replica)]

\* the batches sent to subscriber s are in increasing block-number order
DeliveredIncreasing(s) ==
    \A i, j \in 1..Len(delivered[s]) :
        i < j => MaxNumber(delivered[s][i]) < MaxNumber(delivered[s][j])

\* C15: under linear growth without logs and without trail every discovered block
\* yields exactly one published batch of exactly one Added entry, the batches are
\* delivered in increasing block-number order, and the cache ends with the blocks
\* in arrival order.
C15_LinearGrowth ==
    /\ LinearGrowthPublished
    /\ (linear /\ ~withLogs /\ trail = 0) => \A s \in 1..MaxSubs : DeliveredIncreasing(s)

IsPrefix(s, t) == Len(s) <= Len(t) /\ s = SubSeq(t, 1, Len(s))

Occurrences(s, x) == Cardinality({j \in 1..Len(s) : s[j] = x})

\* the partial event list the last failed resolution returned, if the last
\* resolution failed, else the events sink
Carried == IF res.err \in {"nil", "none"} THEN events ELSE res.events

\* C16: a round whose resolution fails leaves the popped blocks out of the cache,
\* publishes and enqueues nothing and keeps the events, the Removed events of the
\* popped blocks included; the next round that succeeds puts every event of the
\* failed attempt exactly once in the batch it enqueues (with no trail: publishes).
C16_FailedResolution ==
    [][rounds' = rounds + 1 =>
           LET k == CountEvent(res'.events, "Removed") - CountEvent(events, "Removed")
               popped == SubSeq(chain, Len(chain) - k + 1, Len(chain))
               new == SubSeq(res'.events, Len(events) + 1, Len(res'.events))
           IN  IF res'.err # "nil"
               THEN /\ sent' = sent
                    /\ publishQueue' = publishQueue
                    /\ publishCh' = publishCh
                    /\ pc' = "poll"
                    /\ IsPrefix(events, events')
                    /\ \A i \in 1..k :
                           /\ popped[i].id \notin Ids(chain')
                           /\ Occurrences(Hashes_(SelectSeq(new,
                                  LAMBDA e : e.event = "Removed")), popped[i].hash) = 1
                    /\ \A i \in 1..Len(new) : new[i] \in {events'[j] : j \in 1..Len(events')}
               ELSE pc' # "fatal" =>
                    /\ \A i \in 1..Len(Carried) :
                           Occurrences(sent' \o FlatIds(publishQueue'), Carried[i].id) = 1
                    /\ trail = 0 => IsPrefix(IdsOf(Carried), IdsOf(publishCh'))]_vars

\* C17: a round that reaches publish while the publish queue holds
\* 2 x (BlockRetentionLimit + TrailNumBlocksBehindHead) batches fails to
\* enqueue: nothing is put on the publish channel, the queue keeps its batches
\* and monitor, and Run, return ErrFatal; below that capacity publish does not
\* fail
C17_QueueFullFatal ==
    [][(rounds' = rounds + 1 /\ res'.err = "nil") =>
         IF Len(publishQueue) >= 2 * (BlockRetentionLimit + trail)
         THEN /\ pc' = "fatal"
              /\ running' = 0
              /\ publishCh' = <<>>
              /\ sent' = sent
              /\ Len(publishQueue') = Len(publishQueue)
         ELSE /\ pc' # "fatal"
              /\ running' = 1]_vars

C17_Witness ==
    /\ pc = "fatal"
    /\ running = 0
    /\ rounds >= 1
    /\ res.err = "nil"
    /\ Len(publishQueue) = 2 * (BlockRetentionLimit + trail)

\* C18: once the polling loop runs, Run returns an error only from a round
\* whose resolution succeeded and whose enqueue on the publish queue failed;
\* a round that ends in NotFound, in a failed fetch by number, in a failed
\* fetch by hash or in a push error leaves Run running at the top of the loop,
\* and Run returns otherwise only with nil, on a done context
C18_OnlyEnqueueFatal ==
    [][/\ (pc # "fatal" /\ pc' = "fatal") =>
            /\ rounds' = rounds + 1
            /\ res'.err = "nil"
            /\ enqueue(publishQueue, res'.events).err = "ErrQueueFull"
       /\ (rounds' = rounds + 1 /\ res'.err # "nil") => (pc' = "poll" /\ running' = 1)
       /\ (PollNotFound \/ PollFetchError) => (pc' = "poll" /\ running' = 1)
       /\ (running = 1 /\ running' = 0 /\ pc' # "fatal") => (ctxDone /\ pc' = "stopped")
      ]_vars

C18_Witness ==
    /\ res.err \in {"fetchBlockByHash", "ErrUnexpectedParentHash", "ErrUnexpectedBlockNumber"}
    /\ Len(publishQueue) = QueueCapacity
    /\ pc = "poll"
    /\ running = 1
    /\ rounds = MaxQueueRounds

\* C19: once Stop() has cancelled m.ctx of a running monitor, Run eventually
\* returns nil, at whatever step of the round the cancellation landed (unless
\* the context passed to Run is cancelled as well)
C19_StopReturnsNil ==
    (ctxDone /\ ~parentDone) ~> (pc = "stopped" \/ parentDone)

\* C20: once the context passed to Run is cancelled, Run eventually returns,
\* also when the monitor task is sending a batch on the publish channel and
\* the broadcast tasks have returned on the same cancellation
C20_CancelReturns ==
    parentDone ~> (running = 0)

\* C27: the adaptive poll interval is at least 1 time unit in every state,
\* after any number of consecutive successful fetches
C27_IntervalAtLeastOne ==
    pollInterval >= 1

AddedHashes(blocks) == Hashes_(SelectSeq(blocks, LAMBDA e : e.event = "Added"))

\* C24: the cache never holds more than BlockRetentionLimit +
\* TrailNumBlocksBehindHead blocks, and a resolution that succeeded leaves the
\* blocks it did not pop followed by the blocks it pushed, less the oldest
\* ones beyond that limit and no other
C24_RetentionBound ==
    [][/\ Len(chain) <= BlockRetentionLimit + trail
       /\ Len(chain') <= BlockRetentionLimit + trail
       /\ (rounds' = rounds + 1 /\ res'.err = "nil") =>
            Hashes_(chain') =
                KeepLast(SubSeq(Hashes_(chain), 1, Len(chain) - Depth')
                             \o AddedHashes(Emitted'),
                         BlockRetentionLimit + trail)]_vars

C24_Witness ==
    /\ res.err = "nil"
    /\ Depth = 0
    /\ trail > 0
    /\ Len(res.pre) = BlockRetentionLimit + trail
    /\ Len(chain) = BlockRetentionLimit + trail
    /\ Hashes_(chain) = Tail(Hashes_(res.pre)) \o AddedHashes(Emitted)

\* C28: a Run with an empty cache and a negative StartBlockNumber that got the
\* provider's latest block probes first the number latest + StartBlockNumber,
\* or 0 when that sum is negative
C28_NegativeStartClamped ==
    (/\ running = 1
     /\ rounds = 0
     /\ chain = <<>>
     /\ startBlockNumber # Nil
     /\ startBlockNumber < 0
     /\ latest # Nil)
        => Probe = Max(latest + startBlockNumber, 0)

\* C29: a Run that starts with a non-empty cache (handed blocks by a bootstrap,
\* or left by the Run before) sets the next block number to the number of the
\* cache head plus one, and that is the number it probes first, whatever
\* StartBlockNumber is; in Bootstrap mode with a cache never populated no Run
\* gets to ask the provider, to start a broadcast task or to enter the loop
C29_ResumeFromHead ==
    [][/\ (running = 0 /\ running' = 1 /\ chain # <<>>) =>
            /\ nextBlockNumber' = ChainHead(chain).number + 1
            /\ Probe' = ChainHead(chain).number + 1
            /\ latest' = Nil
       /\ (bootstrap /\ chain = <<>> /\ rounds = 0) =>
            /\ running' = 0
            /\ pc' \in {"idle", "bootstrap"}
            /\ UNCHANGED <<latest, holding, nextBlockNumber, chain, rounds>>
      ]_vars

C29_Witness ==
    /\ running = 1
    /\ pc = "poll"
    /\ Len(holding) = 2
    /\ startBlockNumber # Nil
    /\ chain # <<>>
    /\ nextBlockNumber = ChainHead(chain).number + 1
    /\ nextBlockNumber # startBlockNumber

\* C30: LatestFinalBlock(n), n >= 0, returns nil when the cache holds fewer
\* than n + 1 blocks (for every n when the cache is empty), and otherwise the
\* cached block n positions behind the head, whose number is head.number - n
C30_LatestFinalBlock ==
    [][(final' # final) =>
         IF Len(chain) < final'.n + 1
         THEN final'.block = <<>>
         ELSE /\ final'.block = <<chain[Len(chain) - final'.n]>>
              /\ final'.block[1].number = ChainHead(chain).number - final'.n]_vars

C30_Witness ==
    /\ final.n = 1
    /\ final.block # <<>>
    /\ Len(chain) >= 2
    /\ final.block[1].number = ChainHead(chain).number - 1

\* C21: whatever the interleaving of concurrent Run calls on one Monitor, at
\* most one call is in the polling loop
C21_SingleLoop ==
    Cardinality({c \in DOMAIN callers : callers[c] = "loop"}) <= 1

C25_FetchByNumber ==
    fetch.fn = "byNumber" =>
        /\ fetch.calls <= 10
        /\ fetch.nf <= 1 /\ fetch.ok <= 1 /\ fetch.nf + fetch.ok <= 1 /\ fetch.er <= 10
        /\ fetch.calls = fetch.nf + fetch.ok + fetch.er
        /\ (fetch.result = "NotFound") <=> (fetch.nf = 1)
        /\ (fetch.result = "block") <=> (fetch.ok = 1)
        /\ (fetch.result = "ErrMaxAttempts") =>
               (fetch.er = 10 /\ fetch.calls = 10 /\ fetch.wrapped = fetch.err
                    /\ fetch.err \in ProviderErrors)
        /\ (fetch.er = 10) => (fetch.result \in {"none", "ErrMaxAttempts", "ctxErr"})
        /\ (fetch.result = "none" /\ ~ctxDone /\ fetch.er < 10) => ENABLED FetchCall("block")
        /\ (fetch.result = "none" /\ ~ctxDone /\ fetch.er = 10) => ENABLED FetchErrLimit

C25_Witness ==
    /\ fetch.fn = "byNumber"
    /\ fetch.result = "ErrMaxAttempts"
    /\ fetch.calls = 10
    /\ fetch.wrapped = "refused"

\* C26: fetchBlockByHash counts NotFound answers and other provider errors
\* apart: it returns NotFound when it has seen 4 NotFound answers, with any
\* number below 10 of other errors among them, and ErrMaxAttempts when it has
\* seen 10 other errors, with any number below 4 of NotFound answers among
\* them; each counter is the number of answers of its kind, whatever the
\* number of the other kind
C26_FetchByHash ==
    fetch.fn = "byHash" =>
        /\ fetch.notFoundAttempts = fetch.nf
        /\ fetch.errAttempts = fetch.er
        /\ fetch.nf <= 4 /\ fetch.er <= 10
        /\ (fetch.result = "NotFound") => (fetch.nf = 4 /\ fetch.er < 10)
        /\ (fetch.result = "ErrMaxAttempts") => (fetch.er = 10 /\ fetch.nf < 4)
        /\ (fetch.nf = 4) => (fetch.result \in {"none", "NotFound", "ctxErr"})
        /\ (fetch.er = 10) => (fetch.result \in {"none", "ErrMaxAttempts", "ctxErr"})
        /\ (fetch.result = "none" /\ ~ctxDone /\ fetch.nf = 4) => ENABLED FetchNotFoundLimit
        /\ (fetch.result = "none" /\ ~ctxDone /\ fetch.er = 10) => ENABLED FetchErrLimit
        /\ (fetch.result = "none" /\ ~ctxDone /\ fetch.nf < 4 /\ fetch.er < 10) =>
               ENABLED FetchCall("NotFound")

C26_Witness ==
    /\ fetch.fn = "byHash"
    /\ fetch.result = "NotFound"
    /\ fetch.nf = 4
    /\ fetch.er = 9

\* Monitor.LatestBlock and Monitor.LatestBlockNum on the cache c (<<>>: nil)
LatestBlock(c) == IF c = <<>> THEN <<>> ELSE <<ChainHead(c)>>

LatestBlockNum(c) == IF c = <<>> THEN 0 ELSE ChainHead(c).number

\* C31: PurgeHistory called on a cache of two or more blocks leaves exactly one
\* block, the head, so that LatestBlock and LatestBlockNum answer as before
\* the call; on a cache of no or one block it changes nothing
C31_PurgeKeepsHead ==
    [][PurgeHistoryCall =>
         /\ IF Len(chain) >= 2 THEN chain' = <<ChainHead(chain)>> ELSE chain' = chain
         /\ LatestBlock(chain') = LatestBlock(chain)
         /\ LatestBlockNum(chain') = LatestBlockNum(chain)]_vars

\* C32: fetchBlockByHash returns after at most 13 provider calls (3 NotFound
\* answers, 9 other errors and one last answer) for every sequence of provider
\* answers, answers with neither a block nor an error included
C32_FetchByHashBounded ==
    fetch.fn = "byHash" => fetch.calls <= 13

\* C33: whatever the interleaving of the broadcast task with the unsubscribe
\* calls, a broadcast finds no subscriber in the registry whose channel is
\* closed: it never calls Send on a closed channel
C33_NoSendOnClosed ==
    [][(\E t \in 1..Len(holding) : Deliver(t)) =>
           \A i \in 1..Len(subscribers) : subscribers[i] \notin closed]_vars

\* the broadcast tasks that have not returned
LiveTasks == {t \in 1..Len(holding) : t \notin exited}

\* C34: at any time at most one broadcast task receives from the publish
\* channel: when a Run follows a Stop on the same Monitor, with the context
\* passed to the first Run still live, the broadcast task of the first Run has
\* returned
C34_OneBroadcastTask ==
    Cardinality(LiveTasks) <= 1

PushErrors == {"ErrUnexpectedParentHash", "ErrUnexpectedBlockNumber"}

\* C35: when a push fails in a resolution, the event list the resolution
\* returns, which is carried to the next round, holds an Added event only for
\* the blocks the resolution pushed onto the cache, and none for the block the
\* cache rejected, in the direct-extension branch as after the recursion
C35_AddedOnlyIfPushed ==
    res.err \in PushErrors =>
        /\ events = res.events
        /\ \A i \in 1..Len(Emitted) :
               Emitted[i].event = "Added" => Emitted[i].id \in Ids(res.chain)

\* C36: a resolution pops at most as many blocks as the cache held at its
\* start, each one a block of that cache, newest first, and never pops from an
\* empty cache; when the pops have emptied the cache and the fetch of the
\* ancestor succeeded, the ancestor is pushed as the new anchor and the
\* recursion unwinds pushing its descendants; the cache is left linked
C36_DeepReorg ==
    res.err # "none" =>
        LET k == Depth
            n == Len(res.pre)
        IN  /\ k <= n
            /\ \A i \in 1..k :
                   /\ Emitted[i].event = "Removed"
                   /\ Emitted[i].hash = res.pre[n - i + 1].hash
            /\ Linked(res.chain)
            /\ (k = n /\ res.err # "fetchBlockByHash") =>
                   /\ res.chain # <<>>
                   /\ res.chain[1].id \in Ids(Emitted)
                   /\ Len(Emitted) > k
                   /\ Emitted[k + 1].event = "Added"
                   /\ res.err = "nil" =>
                          /\ Len(Emitted) = 2 * k + 1
                          /\ Emitted[Len(Emitted)].hash = res.next
                          /\ Hashes_(res.chain) =
                                 KeepLast(AddedHashes(Emitted), RetentionLimit)

\* a reorg that popped both blocks of the cache and anchored on the ancestor
C36_Witness ==
    /\ res.err = "nil"
    /\ Len(res.pre) = 2
    /\ Depth = 2
    /\ Len(res.chain) >= 2
    /\ res.chain[1].hash # res.pre[1].hash

\* C37: IsRunning() is true exactly while a polling loop of the Monitor is
\* executing: false before the first Run and after a Run has returned, true
\* while a call of Run is in its loop, also when calls of Run overlap
C37_IsRunningExact ==
    (running = 1) <=> (\E c \in DOMAIN callers : callers[c] = "loop")

\* C38: with a provider that serves consistent blocks only (number =
\* parent.number + 1), the publish queue holds at most
\* TrailNumBlocksBehindHead batches after every publish, never reaches its
\* capacity, and Run never returns ErrFatal
C38_QueueNeverFull ==
    consistent =>
        /\ Len(publishQueue) <= trail
        /\ Len(publishQueue) < QueueCapacity
        /\ pc # "fatal"

\* every Added block of the cache has its logs
AllCachedOk == \A i \in 1..Len(chain) : chain[i].event = "Added" => chain[i].ok

\* C39: with WithLogs and a provider whose FilterLogs always succeeds and
\* answers truthfully, every Added block of the cache eventually has
\* ok = true, without a topic filter as with a filter that matches none of
\* the logs of a block of non-zero bloom
C39_EventuallyOk ==
    (~AllCachedOk) ~> AllCachedOk
====
